---- MODULE Spec2Model ----
(***************************************************************************)
(* A model of src/main.js: the Releases catalog (build, constructor, the   *)
(* four levels of version queries, latest) and the tabify tab helper.      *)
(*                                                                         *)
(* JavaScript values are modelled as follows.                              *)
(*   - strings are TLA+ strings, inspected character by character;         *)
(*   - arrays are sequences; JS index i is sequence position i + 1;        *)
(*   - a value that may be undefined is a sequence of length at most one:  *)
(*     <<>> is undefined, <<v>> is v;                                      *)
(*   - the bits argument, which callers pass as a number or as a string    *)
(*     such as "all", is a record [type, val].                             *)
(***************************************************************************)
EXTENDS Integers, Sequences, FiniteSets, TLC

VARIABLES
    releases,           \* this.releases: the annotated records, in order
    arches,             \* this.arches
    editions,           \* this.editions
    pc,                 \* the caller of the catalog: "idle" or "returned"
    call,               \* the query the caller made last
    ret,                \* what that query handed back
    tab_headers,        \* [...header.children]: classList, style, onclick
    tab_contents,       \* [...content.children]: style.display
    current_tab_index,  \* the closure variable of tabify
    default_tab_index,  \* the global binding tabify assigns to, if any
    tab_pc,             \* "start", "ready" (tabify returned), "threw"
    event               \* the last thing that happened to the tabs

vars == <<releases, arches, editions, pc, call, ret,
          tab_headers, tab_contents, current_tab_index, default_tab_index,
          tab_pc, event>>

catalogVars == <<releases, arches, editions, pc, call, ret>>
tabVars == <<tab_headers, tab_contents, current_tab_index, default_tab_index,
             tab_pc, event>>

(***************************************************************************)
(* Bounds of the model.                                                    *)
(***************************************************************************)
MaxReleases == 3
MaxTabs == 3

(***************************************************************************)
(* Strings.                                                                *)
(***************************************************************************)
Digits == "0123456789"

\* The characters the catalog's strings use, in ascending UTF-16 code unit
\* order, which is the order Array.prototype.sort() compares strings by.
CodeUnits == "-.0123456789ABCDEFGHIJKLMNOPQRSTUVWXYZ_abcdefghijklmnopqrstuvwxyz"

charAt(s, i) == SubSeq(s, i, i)

isDigit(c) == \E k \in 1..Len(Digits) : charAt(Digits, k) = c

digitValue(c) == (CHOOSE k \in 1..Len(Digits) : charAt(Digits, k) = c) - 1

codeUnit(c) == CHOOSE k \in 1..Len(CodeUnits) : charAt(CodeUnits, k) = c

\* String.prototype.includes
includes(s, sub) ==
    \E i \in 1..(Len(s) - Len(sub) + 1) : SubSeq(s, i, i + Len(sub) - 1) = sub

RECURSIVE splitFrom(_, _, _)
splitFrom(s, start, i) ==
    IF i > Len(s) THEN <<SubSeq(s, start, Len(s))>>
    ELSE IF charAt(s, i) = "."
         THEN <<SubSeq(s, start, i - 1)>> \o splitFrom(s, i + 1, i + 1)
         ELSE splitFrom(s, start, i + 1)

\* String.prototype.split('.', limit)
split(s, limit) ==
    LET all == splitFrom(s, 1, 1)
    IN  IF Len(all) > limit THEN SubSeq(all, 1, limit) ELSE all

RECURSIVE parseDigits(_, _, _)
parseDigits(s, i, acc) ==
    IF i > Len(s) \/ ~isDigit(charAt(s, i)) THEN acc
    ELSE parseDigits(s, i + 1, acc * 10 + digitValue(charAt(s, i)))

\* parseInt(s, 10) on a string without sign or leading blanks: the value of
\* the leading digits, NaN when there is none.
parseInt(s) ==
    IF Len(s) = 0 \/ ~isDigit(charAt(s, 1)) THEN "NaN" ELSE parseDigits(s, 1, 0)

\* The default comparison of Array.prototype.sort(): by code units, a proper
\* prefix first.
RECURSIVE stringLess(_, _, _)
stringLess(a, b, i) ==
    IF i > Len(b) THEN FALSE
    ELSE IF i > Len(a) THEN TRUE
    ELSE IF charAt(a, i) = charAt(b, i) THEN stringLess(a, b, i + 1)
    ELSE codeUnit(charAt(a, i)) < codeUnit(charAt(b, i))

RECURSIVE insertString(_, _)
insertString(x, sorted) ==
    IF sorted = <<>> THEN <<x>>
    ELSE IF stringLess(x, Head(sorted), 1) THEN <<x>> \o sorted
    ELSE <<Head(sorted)>> \o insertString(x, Tail(sorted))

RECURSIVE sortDefault(_)
sortDefault(a) ==
    IF a = <<>> THEN <<>>
    ELSE insertString(a[Len(a)], sortDefault(SubSeq(a, 1, Len(a) - 1)))

RECURSIVE insertNumber(_, _)
insertNumber(x, sorted) ==
    IF sorted = <<>> THEN <<x>>
    ELSE IF x - Head(sorted) < 0 THEN <<x>> \o sorted
    ELSE <<Head(sorted)>> \o insertNumber(x, Tail(sorted))

\* Array.prototype.sort((a, b) => a - b)
RECURSIVE sortNumeric(_)
sortNumeric(a) ==
    IF a = <<>> THEN <<>>
    ELSE insertNumber(a[Len(a)], sortNumeric(SubSeq(a, 1, Len(a) - 1)))

\* Array.prototype.includes on an array of numbers or strings
arrayIncludes(a, x) == \E i \in 1..Len(a) : a[i] = x

\* a[a.length - 1]: undefined on an empty array
lastOf(a) == IF Len(a) = 0 THEN <<>> ELSE <<a[Len(a)]>>

\* A parameter with a default value: undefined takes the default.
orDefault(opt, d) == IF opt = <<>> THEN d ELSE opt[1]

(***************************************************************************)
(* Releases.build: the annotation of one raw record.                       *)
(***************************************************************************)
versionPart(versionParts, k) ==
    IF k <= Len(versionParts) THEN versionParts[k] ELSE "0"

sortable(element) ==
    LET versionParts == split(element.version, 4)
        is64Bit == includes(element.archname, "x64")
    IN  [bits  |-> IF is64Bit THEN 64 ELSE 32,
         major |-> parseInt(versionPart(versionParts, 1)),
         minor |-> parseInt(versionPart(versionParts, 2)),
         patch |-> parseInt(versionPart(versionParts, 3)),
         straw |-> parseInt(versionPart(versionParts, 4))]

build(raw) ==
    [i \in 1..Len(raw) |->
        [version  |-> raw[i].version,
         archname |-> raw[i].archname,
         edition  |-> raw[i].edition,
         sortable |-> sortable(raw[i])]]

(***************************************************************************)
(* The raw records a releases.json is drawn from. edition lists the keys   *)
(* of the record's edition object, in insertion order.                     *)
(***************************************************************************)
RawRecords ==
    { [version |-> "5.32.1.1", archname |-> "MSWin32-x64-multi-thread",
       edition |-> <<"msi", "portable">>],
      [version |-> "5.32.1.1", archname |-> "MSWin32-x86-multi-thread",
       edition |-> <<"msi">>],
      [version |-> "5.32.1.1", archname |-> "MSWin32-x86-multi-thread-64int",
       edition |-> <<"zip">>],
      [version |-> "5.8.9.5.1", archname |-> "MSWin32-x86-multi-thread",
       edition |-> <<"portable", "zip">>],
      [version |-> "5.32", archname |-> "MSWin32-x64-multi-thread",
       edition |-> <<"pdl">>],
      [version |-> "6", archname |-> "MSWin32-x64-multi-thread",
       edition |-> <<"msi", "pdl">>] }

RECURSIVE SeqsUpTo(_, _)
SeqsUpTo(S, n) ==
    IF n = 0 THEN {<<>>}
    ELSE LET shorter == SeqsUpTo(S, n - 1)
         IN  shorter \cup {Append(s, x) : s \in {t \in shorter : Len(t) = n - 1}, x \in S}

(***************************************************************************)
(* Releases.constructor                                                    *)
(***************************************************************************)
RECURSIVE pushDistinct(_, _)
pushDistinct(acc, items) ==
    IF items = <<>> THEN acc
    ELSE pushDistinct(IF arrayIncludes(acc, Head(items)) THEN acc
                      ELSE Append(acc, Head(items)),
                      Tail(items))

RECURSIVE constructorArches(_, _)
constructorArches(acc, rel) ==
    IF rel = <<>> THEN acc
    ELSE constructorArches(pushDistinct(acc, <<Head(rel).archname>>), Tail(rel))

RECURSIVE constructorEditions(_, _)
constructorEditions(acc, rel) ==
    IF rel = <<>> THEN acc
    ELSE constructorEditions(pushDistinct(acc, Head(rel).edition), Tail(rel))

bits == <<32, 64>>

(***************************************************************************)
(* The bits argument of the queries.                                       *)
(***************************************************************************)
Num(n) == [type |-> "number", val |-> n]

\* the string "all": it carries no number
AllBits == [type |-> "string", val |-> 0]

BitsArgs == {Num(0), Num(16), Num(32), Num(64), AllBits}

\* this.bits.includes(bits): SameValueZero, so a string is never included
bitsIncludes(b) == b.type = "number" /\ arrayIncludes(bits, b.val)

\* e.sortable.bits === bits
bitsStrictEquals(e, b) == b.type = "number" /\ e.sortable.bits = b.val

(***************************************************************************)
(* The record-level queries. Each reads this.releases.                     *)
(***************************************************************************)
versionsMajor(b) ==
    LET Keep(e) == bitsStrictEquals(e, b)
    IN  IF bitsIncludes(b) THEN SelectSeq(releases, Keep) ELSE releases

\* Which array versionsMajor hands back: a new one made by filter, or
\* this.releases itself.
versionsMajorRef(b) == IF bitsIncludes(b) THEN "fresh" ELSE "releases"

\* versionsMinor without the test that bits is one of this.bits
versionsMinor_alwaysFilters(b, major) ==
    LET Keep(element) ==
            IF element.sortable.major = major
            THEN bitsStrictEquals(element, b)
            ELSE FALSE
    IN  SelectSeq(releases, Keep)

versionsMinor(b, major) ==
    LET Keep(element) ==
            IF element.sortable.major = major
            THEN IF bitsIncludes(b) THEN bitsStrictEquals(element, b) ELSE TRUE
            ELSE FALSE
    IN  SelectSeq(releases, Keep)

versionsPatch(b, major, minor) ==
    LET filtered == versionsMinor(b, major)
        Keep(element) == element.sortable.minor = minor
    IN  SelectSeq(filtered, Keep)

versionsStraw(b, major, minor, patch) ==
    LET filtered == versionsPatch(b, major, minor)
        Keep(element) == element.sortable.patch = patch
    IN  SelectSeq(filtered, Keep)

(***************************************************************************)
(* The numeric queries.                                                    *)
(***************************************************************************)
\* versionNumbersMajor returning the numbers in the order it met them
versionNumbersMajor_unsorted(b) ==
    LET filtered == versionsMajor(b)
    IN  pushDistinct(<<>>, [i \in 1..Len(filtered) |-> filtered[i].sortable.major])

versionNumbersMajor(b) ==
    LET filtered == versionsMajor(b)
        versions == pushDistinct(<<>>,
                       [i \in 1..Len(filtered) |-> filtered[i].sortable.major])
    IN  sortNumeric(versions)

\* versionNumbersMinor pushing every record's number, met before or not
versionNumbersMinor_withDuplicates(b, major) ==
    LET filtered == versionsMinor(b, major)
    IN  sortNumeric([i \in 1..Len(filtered) |-> filtered[i].sortable.minor])

versionNumbersMinor(b, major) ==
    LET filtered == versionsMinor(b, major)
        versions == pushDistinct(<<>>,
                       [i \in 1..Len(filtered) |-> filtered[i].sortable.minor])
    IN  sortNumeric(versions)

versionNumbersPatch(b, major, minor) ==
    LET filtered == versionsPatch(b, major, minor)
        versions == pushDistinct(<<>>,
                       [i \in 1..Len(filtered) |-> filtered[i].sortable.patch])
    IN  sortNumeric(versions)

versionNumbersStraw(b, major, minor, patch) ==
    LET filtered == versionsStraw(b, major, minor, patch)
        versions == pushDistinct(<<>>,
                       [i \in 1..Len(filtered) |-> filtered[i].sortable.straw])
    IN  sortNumeric(versions)

(***************************************************************************)
(* Releases.latest. An undefined argument takes the parameter's default 0. *)
(* A record's straw never equals an undefined straws[straws.length - 1].   *)
(***************************************************************************)
\* Array.prototype.find: the first element passing, or undefined
find64(filtered) ==
    LET Pass(e) == e.sortable.bits = 64 \/ includes(e.archname, "64int")
        found == SelectSeq(filtered, Pass)
    IN  IF found = <<>> THEN <<>> ELSE <<found[1]>>

\* The end of latest with the length test off by one
latestResult_throwsOnOne(filtered) ==
    IF Len(filtered) <= 1
    THEN [outcome |-> "thrown", value |-> <<>>]
    ELSE [outcome |-> "returned", value |-> find64(filtered)]

\* The end of latest: throw, return the only record, or the one found
latestResult(filtered) ==
    IF Len(filtered) < 1
    THEN [outcome |-> "thrown", value |-> <<>>]
    ELSE IF Len(filtered) = 1
    THEN [outcome |-> "returned", value |-> <<filtered[1]>>]
    ELSE [outcome |-> "returned", value |-> find64(filtered)]

latest(b) ==
    LET majors == versionNumbersMajor(b)
        major == orDefault(lastOf(majors), 0)
        minors == versionNumbersMinor(b, major)
        minor == orDefault(lastOf(minors), 0)
        patches == versionNumbersPatch(b, major, minor)
        patch == orDefault(lastOf(patches), 0)
        straws == versionNumbersStraw(b, major, minor, patch)
        KeepStraw(e) == lastOf(straws) # <<>> /\ e.sortable.straw = lastOf(straws)[1]
        filtered == SelectSeq(versionsStraw(b, major, minor, patch), KeepStraw)
        locals == [majors |-> majors, minors |-> minors,
                   patches |-> patches, straws |-> straws]
        result == latestResult(filtered)
    IN  [outcome |-> result.outcome, ref |-> "none", value |-> result.value,
         locals |-> locals]

(***************************************************************************)
(* The catalog's caller: one action per query, each the whole call.        *)
(***************************************************************************)
MajorArgs == {5, 6}
MinorArgs == {0, 32}
PatchArgs == {0, 1}

NoCall == [op |-> "none", bits |-> Num(0), major |-> 0, minor |-> 0, patch |-> 0]
NoRet == [outcome |-> "none", ref |-> "none", value |-> <<>>]

Returned(op, b, major, minor, patch, value, ref) ==
    /\ pc = "idle"
    /\ pc' = "returned"
    /\ call' = [op |-> op, bits |-> b, major |-> major, minor |-> minor,
                patch |-> patch]
    /\ ret' = [outcome |-> "returned", ref |-> ref, value |-> value]

ArchitechtureNames ==
    \E b \in BitsArgs :
        /\ Returned("architechtureNames", b, 0, 0, 0, sortDefault(arches), "arches")
        /\ arches' = sortDefault(arches)
        /\ UNCHANGED <<releases, editions>>
        /\ UNCHANGED tabVars

VersionNumbersMajor ==
    \E b \in BitsArgs :
        /\ Returned("versionNumbersMajor", b, 0, 0, 0, versionNumbersMajor(b), "fresh")
        /\ UNCHANGED <<releases, arches, editions>>
        /\ UNCHANGED tabVars

VersionNumbersMinor ==
    \E b \in BitsArgs, major \in MajorArgs :
        /\ Returned("versionNumbersMinor", b, major, 0, 0,
                    versionNumbersMinor(b, major), "fresh")
        /\ UNCHANGED <<releases, arches, editions>>
        /\ UNCHANGED tabVars

VersionNumbersPatch ==
    \E b \in BitsArgs, major \in MajorArgs, minor \in MinorArgs :
        /\ Returned("versionNumbersPatch", b, major, minor, 0,
                    versionNumbersPatch(b, major, minor), "fresh")
        /\ UNCHANGED <<releases, arches, editions>>
        /\ UNCHANGED tabVars

VersionNumbersStraw ==
    \E b \in BitsArgs, major \in MajorArgs, minor \in MinorArgs, patch \in PatchArgs :
        /\ Returned("versionNumbersStraw", b, major, minor, patch,
                    versionNumbersStraw(b, major, minor, patch), "fresh")
        /\ UNCHANGED <<releases, arches, editions>>
        /\ UNCHANGED tabVars

VersionsMajor ==
    \E b \in BitsArgs :
        /\ Returned("versionsMajor", b, 0, 0, 0, versionsMajor(b), versionsMajorRef(b))
        /\ UNCHANGED <<releases, arches, editions>>
        /\ UNCHANGED tabVars

VersionsMinor ==
    \E b \in BitsArgs, major \in MajorArgs :
        /\ Returned("versionsMinor", b, major, 0, 0, versionsMinor(b, major), "fresh")
        /\ UNCHANGED <<releases, arches, editions>>
        /\ UNCHANGED tabVars

VersionsPatch ==
    \E b \in BitsArgs, major \in MajorArgs, minor \in MinorArgs :
        /\ Returned("versionsPatch", b, major, minor, 0,
                    versionsPatch(b, major, minor), "fresh")
        /\ UNCHANGED <<releases, arches, editions>>
        /\ UNCHANGED tabVars

VersionsStraw ==
    \E b \in BitsArgs, major \in MajorArgs, minor \in MinorArgs, patch \in PatchArgs :
        /\ Returned("versionsStraw", b, major, minor, patch,
                    versionsStraw(b, major, minor, patch), "fresh")
        /\ UNCHANGED <<releases, arches, editions>>
        /\ UNCHANGED tabVars

Latest ==
    \E b \in BitsArgs :
        /\ pc = "idle"
        /\ pc' = "returned"
        /\ call' = [op |-> "latest", bits |-> b, major |-> 0, minor |-> 0, patch |-> 0]
        /\ ret' = latest(b)
        /\ UNCHANGED <<releases, arches, editions>>
        /\ UNCHANGED tabVars

\* The caller is done with the result and may call again.
Discard ==
    /\ pc = "returned"
    /\ pc' = "idle"
    /\ call' = NoCall
    /\ ret' = NoRet
    /\ UNCHANGED <<releases, arches, editions>>
    /\ UNCHANGED tabVars

(***************************************************************************)
(* tabify. S holds the closure's tab_headers, tab_contents and             *)
(* current_tab_index; setTab gives their values after the call.            *)
(* style.fontWeight = 800 is stored as the string "800".                   *)
(***************************************************************************)
\* setTab showing the new tab before it hides the previous one
setTab_showsThenHides(S, index) ==
    LET prev == S.current_tab_index
        h1 == [S.tab_headers EXCEPT ![index + 1].fontWeight = "800"]
        c1 == [S.tab_contents EXCEPT ![index + 1].display = "flex"]
    IN  [tab_headers |-> IF prev > -1 THEN [h1 EXCEPT ![prev + 1].fontWeight = "400"]
                         ELSE h1,
         tab_contents |-> IF prev > -1 THEN [c1 EXCEPT ![prev + 1].display = "none"]
                          ELSE c1,
         current_tab_index |-> index]

setTab(S, index) ==
    LET prev == S.current_tab_index
        h1 == IF prev > -1
              THEN [S.tab_headers EXCEPT ![prev + 1].fontWeight = "400"]
              ELSE S.tab_headers
        c1 == IF prev > -1
              THEN [S.tab_contents EXCEPT ![prev + 1].display = "none"]
              ELSE S.tab_contents
    IN  [tab_headers |-> [h1 EXCEPT ![index + 1].fontWeight = "800"],
         tab_contents |-> [c1 EXCEPT ![index + 1].display = "flex"],
         current_tab_index |-> index]

\* tab_headers.findIndex(x => [...x.classList].indexOf('default-sp-tab') > -1)
findIndexDefault(headers) ==
    IF \E i \in 1..Len(headers) : headers[i].isDefault
    THEN (CHOOSE i \in 1..Len(headers) :
             /\ headers[i].isDefault
             /\ \A j \in 1..(i - 1) : ~headers[j].isDefault) - 1
    ELSE -1

\* tab_contents.forEach(x => x.style.display = 'none')
hideAll(contents) == [i \in 1..Len(contents) |-> [contents[i] EXCEPT !.display = "none"]]

\* The whole call of tabify(element). main.js is an ES module, so its code is
\* strict: the assignment to default_tab_index, which the file never
\* declares, throws a ReferenceError unless the global object already has a
\* property of that name. The panels are hidden by then; nothing after the
\* assignment runs.
Tabify ==
    /\ tab_pc = "start"
    /\ LET hidden == hideAll(tab_contents)
           found == findIndexDefault(tab_headers)
           index == IF found = -1 THEN 0 ELSE found
           S == setTab([tab_headers |-> tab_headers, tab_contents |-> hidden,
                        current_tab_index |-> current_tab_index], index)
       IN  IF default_tab_index = <<>>
           THEN /\ tab_contents' = hidden
                /\ tab_pc' = "threw"
                /\ event' = [kind |-> "tabify", index |-> -1, wasActive |-> FALSE]
                /\ UNCHANGED <<tab_headers, current_tab_index, default_tab_index>>
           ELSE /\ default_tab_index' = <<index>>
                /\ tab_contents' = S.tab_contents
                /\ tab_headers' = [i \in 1..Len(tab_headers) |->
                                      [S.tab_headers[i] EXCEPT !.onclick = TRUE]]
                /\ current_tab_index' = S.current_tab_index
                /\ tab_pc' = "ready"
                /\ event' = [kind |-> "tabify", index |-> index, wasActive |-> FALSE]
    /\ UNCHANGED catalogVars

\* A click on header i runs its onclick handler, setTab(i).
Click ==
    \E i \in 0..(Len(tab_headers) - 1) :
        /\ tab_pc # "start"
        /\ tab_headers[i + 1].onclick
        /\ LET S == setTab([tab_headers |-> tab_headers, tab_contents |-> tab_contents,
                            current_tab_index |-> current_tab_index], i)
           IN  /\ tab_headers' = S.tab_headers
               /\ tab_contents' = S.tab_contents
               /\ current_tab_index' = S.current_tab_index
        /\ event' = [kind |-> "click", index |-> i,
                     wasActive |-> (i = current_tab_index)]
        /\ UNCHANGED <<default_tab_index, tab_pc>>
        /\ UNCHANGED catalogVars

(***************************************************************************)
(* Initial states.                                                         *)
(***************************************************************************)
\* A catalog as Releases.build leaves it: the raw records annotated, then
\* the constructor's arches and editions.
CatalogBuilt(raw) ==
    /\ releases = build(raw)
    /\ arches = constructorArches(<<>>, build(raw))
    /\ editions = constructorEditions(<<>>, build(raw))
    /\ pc = "idle"
    /\ call = NoCall
    /\ ret = NoRet

\* A container before tabify: n headers, any of them marked default, no
\* inline font weight and no handler; n panels, each shown or hidden; the
\* global default_tab_index absent, or present with some value.
Container(n) ==
    /\ tab_headers \in [1..n -> [isDefault : BOOLEAN, fontWeight : {""},
                                 onclick : {FALSE}]]
    /\ tab_contents \in [1..n -> [display : {"", "none"}]]
    /\ current_tab_index = -1
    /\ default_tab_index \in {<<>>, <<0>>}
    /\ tab_pc = "start"
    /\ event = [kind |-> "none", index |-> -1, wasActive |-> FALSE]

Init ==
    /\ \E raw \in SeqsUpTo(RawRecords, MaxReleases) : CatalogBuilt(raw)
    /\ tab_headers = <<[isDefault |-> FALSE, fontWeight |-> "", onclick |-> FALSE]>>
    /\ tab_contents = <<[display |-> ""]>>
    /\ current_tab_index = -1
    /\ default_tab_index = <<>>
    /\ tab_pc = "start"
    /\ event = [kind |-> "none", index |-> -1, wasActive |-> FALSE]

Next ==
    \/ ArchitechtureNames
    \/ VersionNumbersMajor
    \/ VersionNumbersMinor
    \/ VersionNumbersPatch
    \/ VersionNumbersStraw
    \/ VersionsMajor
    \/ VersionsMinor
    \/ VersionsPatch
    \/ VersionsStraw
    \/ Latest
    \/ Discard

Spec == Init /\ [][Next]_vars

TabInit ==
    /\ CatalogBuilt(<<>>)
    /\ \E n \in 1..MaxTabs : Container(n)

TabNext == Tabify \/ Click

TabSpec == TabInit /\ [][TabNext]_vars

(***************************************************************************)
(* Vocabulary of the properties, stated without the queries' code.         *)
(***************************************************************************)
\* The record passes the bit-width filter of argument b.
Passes(e, b) ==
    IF b.type = "number" /\ b.val \in {32, 64} THEN e.sortable.bits = b.val ELSE TRUE

RECURSIVE PickTo(_, _, _)
PickTo(seq, I, k) ==
    IF k = 0 THEN <<>>
    ELSE PickTo(seq, I, k - 1) \o (IF k \in I THEN <<seq[k]>> ELSE <<>>)

\* The elements of seq at the positions I, in the order of seq.
Pick(seq, I) == PickTo(seq, I, Len(seq))

Range(seq) == {seq[i] : i \in 1..Len(seq)}

StrictlyAscending(seq) == \A i \in 1..(Len(seq) - 1) : seq[i] < seq[i + 1]

Max(S) == CHOOSE x \in S : \A y \in S : y <= x

Tuple(e) == <<e.sortable.major, e.sortable.minor, e.sortable.patch, e.sortable.straw>>

LexGreater(t, u) ==
    \E k \in 1..4 : t[k] > u[k] /\ \A j \in 1..(k - 1) : t[j] = u[j]

PassingRecords(b) == {e \in Range(releases) : Passes(e, b)}

\* The greatest tuple among the records passing the filter (there is one).
LatestTuple(b) ==
    CHOOSE t \in {Tuple(e) : e \in PassingRecords(b)} :
        \A e \in PassingRecords(b) : ~LexGreater(Tuple(e), t)

\* The positions of the records that pass the filter and carry tuple t.
Candidates(b, t) ==
    {i \in 1..Len(releases) : Passes(releases[i], b) /\ Tuple(releases[i]) = t}

Visible(i) == tab_contents[i + 1].display # "none"
Emphasized(i) == tab_headers[i + 1].fontWeight = "800"
TabIndices == 0..(Len(tab_headers) - 1)

Restrict(seq, Keep(_)) == Pick(seq, {i \in 1..Len(seq) : Keep(seq[i])})

LevelMatch(e) ==
    /\ call.op \in {"versionsMinor", "versionsPatch", "versionsStraw"}
          => e.sortable.major = call.major
    /\ call.op \in {"versionsPatch", "versionsStraw"} => e.sortable.minor = call.minor
    /\ call.op = "versionsStraw" => e.sortable.patch = call.patch

RecordOps == {"versionsMajor", "versionsMinor", "versionsPatch", "versionsStraw"}

AfterLatest == pc = "returned" /\ call.op = "latest"

(***************************************************************************)
(* C1. latest called with an out-of-domain bits value, on a catalog where  *)
(* the latest tuple is carried by a 64-bit and by a 32-bit record, returns *)
(* a record whose derived bit-width is 64.                                 *)
(***************************************************************************)
C1_LatestPrefers64Bit ==
    (/\ AfterLatest
     /\ ~(call.bits.type = "number" /\ call.bits.val \in {32, 64})
     /\ \E i, j \in Candidates(call.bits, LatestTuple(call.bits)) :
            /\ releases[i].sortable.bits = 64
            /\ releases[j].sortable.bits = 32)
    => /\ ret.outcome = "returned"
       /\ ret.value # <<>>
       /\ ret.value[1].sortable.bits = 64

(***************************************************************************)
(* C2. When some record passes the bit-width filter, latest returns a      *)
(* record of the catalog, never undefined: the only candidate when one     *)
(* record carries the resolved tuple, and with several candidates the      *)
(* first in catalog order that the tie-break accepts, or the first         *)
(* candidate when it accepts none (all of them 32-bit).                    *)
(***************************************************************************)
C2_LatestReturnsCatalogRecord ==
    (AfterLatest /\ PassingRecords(call.bits) # {})
    => LET cand == Candidates(call.bits, LatestTuple(call.bits))
           accepted == {i \in cand : \/ releases[i].sortable.bits = 64
                                     \/ includes(releases[i].archname, "64int")}
           first(I) == CHOOSE i \in I : \A j \in I : i <= j
       IN  /\ ret.outcome = "returned"
           /\ ret.value # <<>>
           /\ ret.value[1] \in Range(releases)
           /\ ret.value[1] = releases[IF accepted # {} THEN first(accepted)
                                      ELSE first(cand)]

(***************************************************************************)
(* C3. latest throws exactly when no record of the catalog passes the      *)
(* bit-width filter; it then returns no record; and a call of latest       *)
(* leaves releases, arches and editions as they were.                      *)
(***************************************************************************)
C3_LatestThrowsIffNothingPasses ==
    [][(pc' = "returned" /\ call'.op = "latest")
       => /\ (ret'.outcome = "thrown") <=> (PassingRecords(call'.bits) = {})
          /\ ret'.outcome \in {"thrown", "returned"}
          /\ (ret'.outcome = "thrown") => (ret'.value = <<>>)
          /\ releases' = releases
          /\ arches' = arches
          /\ editions' = editions]_vars

C3_Witness ==
    /\ AfterLatest
    /\ ret.outcome = "thrown"
    /\ releases # <<>>

(***************************************************************************)
(* C4. No query changes releases, arches (its order included) or editions, *)
(* and no query returns the catalog's own releases or arches array.        *)
(***************************************************************************)
C4_CatalogImmutable ==
    [][/\ releases' = releases
       /\ arches' = arches
       /\ editions' = editions
       /\ (pc' = "returned") => (ret'.ref \notin {"releases", "arches"})]_vars

(***************************************************************************)
(* C7. A record-level query returns, in catalog order, exactly the records *)
(* of its level: those whose derived bit-width equals bits when bits is 32 *)
(* or 64, and all of them for any other bits; it never throws.             *)
(***************************************************************************)
C7_BitWidthFilter ==
    (pc = "returned" /\ call.op \in RecordOps)
    => /\ ret.outcome = "returned"
       /\ ret.value =
            Pick(releases,
                 {i \in 1..Len(releases) :
                     /\ LevelMatch(releases[i])
                     /\ \/ call.bits \notin {Num(32), Num(64)}
                        \/ releases[i].sortable.bits = call.bits.val})

C7_Witness ==
    /\ pc = "returned"
    /\ call.op = "versionsMinor"
    /\ call.bits = Num(32)
    /\ Len(ret.value) > 0
    /\ \E e \in Range(releases) : e.sortable.major = call.major /\ e.sortable.bits = 64

(***************************************************************************)
(* C8. A numeric query lists, strictly ascending, exactly the values of    *)
(* its level's field on the records the record-level query of the same     *)
(* arguments returns; and each narrower record-level result is the wider   *)
(* one restricted to the records whose narrower field matches.             *)
(***************************************************************************)
C8_NumbersAgreeWithRecords ==
    /\ (pc = "returned" /\ call.op = "versionNumbersMajor")
       => /\ StrictlyAscending(ret.value)
          /\ Range(ret.value) = {e.sortable.major : e \in Range(versionsMajor(call.bits))}
    /\ (pc = "returned" /\ call.op = "versionNumbersMinor")
       => /\ StrictlyAscending(ret.value)
          /\ Range(ret.value) =
               {e.sortable.minor : e \in Range(versionsMinor(call.bits, call.major))}
    /\ (pc = "returned" /\ call.op = "versionNumbersPatch")
       => /\ StrictlyAscending(ret.value)
          /\ Range(ret.value) =
               {e.sortable.patch :
                   e \in Range(versionsPatch(call.bits, call.major, call.minor))}
    /\ (pc = "returned" /\ call.op = "versionNumbersStraw")
       => /\ StrictlyAscending(ret.value)
          /\ Range(ret.value) =
               {e.sortable.straw :
                   e \in Range(versionsStraw(call.bits, call.major, call.minor,
                                             call.patch))}
    /\ (pc = "returned" /\ call.op = "versionsMinor")
       => LET Keep(e) == e.sortable.major = call.major
          IN  ret.value = Restrict(versionsMajor(call.bits), Keep)
    /\ (pc = "returned" /\ call.op = "versionsPatch")
       => LET Keep(e) == e.sortable.minor = call.minor
          IN  ret.value = Restrict(versionsMinor(call.bits, call.major), Keep)
    /\ (pc = "returned" /\ call.op = "versionsStraw")
       => LET Keep(e) == e.sortable.patch = call.patch
          IN  ret.value =
                Restrict(versionsPatch(call.bits, call.major, call.minor), Keep)

C8_Witness ==
    /\ pc = "returned"
    /\ call.op = "versionNumbersMinor"
    /\ Len(ret.value) >= 2
    /\ Len(versionsMinor(call.bits, call.major)) > Len(ret.value)

(***************************************************************************)
(* C10. When some record passes the filter, the tuple latest resolves is   *)
(* the greatest major among the passing records, then the greatest minor   *)
(* among those of that major, then patch, then straw; and no passing       *)
(* record carries a lexicographically greater tuple.                       *)
(***************************************************************************)
C10_LatestIsMaximal ==
    (AfterLatest /\ PassingRecords(call.bits) # {})
    => LET P == PassingRecords(call.bits)
           M == Max({e.sortable.major : e \in P})
           PM == {e \in P : e.sortable.major = M}
           m == Max({e.sortable.minor : e \in PM})
           Pm == {e \in PM : e.sortable.minor = m}
           p == Max({e.sortable.patch : e \in Pm})
           Pp == {e \in Pm : e.sortable.patch = p}
           s == Max({e.sortable.straw : e \in Pp})
           resolved == <<lastOf(ret.locals.majors), lastOf(ret.locals.minors),
                         lastOf(ret.locals.patches), lastOf(ret.locals.straws)>>
       IN  /\ resolved = << <<M>>, <<m>>, <<p>>, <<s>> >>
           /\ \A e \in P : ~LexGreater(Tuple(e), <<M, m, p, s>>)

\* a lower major carries a higher minor than the resolved one
C10_Witness ==
    /\ AfterLatest
    /\ ret.outcome = "returned"
    /\ \E e \in PassingRecords(call.bits) :
          /\ e.sortable.major < lastOf(ret.locals.majors)[1]
          /\ e.sortable.minor > lastOf(ret.locals.minors)[1]

(***************************************************************************)
(* C5. Once tabify has run, and after any clicks, exactly one panel is     *)
(* visible, the one at current_tab_index, exactly that index's header is   *)
(* emphasized, and current_tab_index is in 0..N-1.                         *)
(***************************************************************************)
C5_ExactlyOneVisible ==
    (tab_pc # "start")
    => /\ current_tab_index \in TabIndices
       /\ \A i \in TabIndices : Visible(i) <=> (i = current_tab_index)
       /\ \A i \in TabIndices : Emphasized(i) <=> (i = current_tab_index)

(***************************************************************************)
(* C6. Once tabify has run it has completed: the active index is that of   *)
(* the first header marked default, or 0 when none is marked, and every    *)
(* header has its click handler.                                           *)
(***************************************************************************)
C6_InitSelectsDefault ==
    (event.kind = "tabify")
    => /\ tab_pc = "ready"
       /\ \A i \in TabIndices : tab_headers[i + 1].onclick
       /\ IF \E i \in TabIndices : tab_headers[i + 1].isDefault
          THEN /\ tab_headers[current_tab_index + 1].isDefault
               /\ \A j \in 0..(current_tab_index - 1) : ~tab_headers[j + 1].isDefault
          ELSE current_tab_index = 0

(***************************************************************************)
(* C9. A click on the header of the active tab leaves the headers, the     *)
(* panels and current_tab_index as they were.                              *)
(***************************************************************************)
C9_ReselectIsNoOp ==
    [][(event'.kind = "click" /\ event'.wasActive)
       => /\ tab_headers' = tab_headers
          /\ tab_contents' = tab_contents
          /\ current_tab_index' = current_tab_index]_vars

C9_Witness ==
    /\ tab_pc = "ready"
    /\ Len(tab_headers) >= 2
    /\ event.kind = "click"
    /\ event.wasActive

====
